---- MODULE Spec2Model ----
(***************************************************************************)
(* Multi-round interview agent: the three scorers (Level1screening.py,     *)
(* Level2technical.py, Level3scenario.py), the SQLite store (db.py), the   *)
(* orchestrator evaluate_candidate (pipeline.py) and the /screen_resume    *)
(* endpoint (Main.py).                                                     *)
(*                                                                         *)
(* Numbers.  Scores are Python floats rounded to 2 decimals; the model     *)
(* keeps them as integers in hundredths of a point (66.5 is 6650).         *)
(* prob_pass is rounded to 3 decimals and kept in thousandths (0.5 is      *)
(* 500).  Unrounded intermediate values are exact fractions <<num, den>>.  *)
(* A nullable column is <<>> (NULL) or <<v>>.                              *)
(***************************************************************************)
EXTENDS Integers, Sequences, FiniteSets, TLC

(***************************************************************************)
(* Bounds of the model.                                                    *)
(***************************************************************************)
NumRequests == 2      \* requests (evaluate_candidate, /screen_resume) that may overlap
MaxTime == 1          \* the clock _utc_now() reads runs over 0..MaxTime
MaxApiCalls == 1      \* direct calls to the store, besides the requests

Requests == 1..NumRequests

NULL == <<>>
Some(v) == <<v>>

\* dict.get(key, default)
Get(d, key, default) == IF key \in DOMAIN d THEN d[key] ELSE default

Min(a, b) == IF a <= b THEN a ELSE b

RECURSIVE Pow(_, _)
Pow(b, e) == IF e = 0 THEN 1 ELSE b * Pow(b, e - 1)

\* round(n/d, digits) as an integer count of the last kept digit: the nearest
\* integer to n/d, an exact tie going to the even neighbour (Python 3 round).
RoundHalfEven(n, d) ==
    LET q == n \div d
        r == n % d
    IN  IF 2 * r < d THEN q
        ELSE IF 2 * r > d THEN q + 1
        ELSE IF q % 2 = 0 THEN q ELSE q + 1

(***************************************************************************)
(* Level1screening.py                                                      *)
(*                                                                         *)
(* A text is [str, distinct, reps]: str is FALSE for a value that is not a *)
(* Python str; otherwise the text has `distinct` different tokens, each    *)
(* occurring `reps` times.  For such a text the Shannon entropy is         *)
(* log(distinct) and log(total) = log(distinct) + log(reps), so            *)
(* entropy_norm is an exact fraction whenever one of distinct, reps is a   *)
(* power of the other.                                                     *)
(***************************************************************************)
MaxExp == 6

NoText == [str |-> FALSE, distinct |-> 0, reps |-> 0]
\* a value that is a list: not a string, and no value of an SQLite column
ListText == [str |-> FALSE, distinct |-> 0, reps |-> 0, list |-> TRUE]
Text(k, m) == [str |-> TRUE, distinct |-> k, reps |-> m]
EmptyText == Text(0, 0)

\* len(re.findall(r"\w+", text.lower()))
TokenCount(text) == text.distinct * text.reps

\* entropy / math.log(total) as <<num, den>>
EntropyNorm(text) ==
    LET k == text.distinct
        m == text.reps
    IN  IF m = 1 THEN <<1, 1>>
        ELSE IF k = 1 THEN <<0, 1>>
        ELSE IF \E e \in 1..MaxExp : Pow(m, e) = k
             THEN LET e == CHOOSE e \in 1..MaxExp : Pow(m, e) = k
                  IN  <<e, e + 1>>
             ELSE LET e == CHOOSE e \in 1..MaxExp : Pow(k, e) = m
                  IN  <<1, e + 1>>

HasEntropyNorm(text) ==
    \/ text.reps = 1
    \/ text.distinct = 1
    \/ \E e \in 1..MaxExp : Pow(text.reps, e) = text.distinct
    \/ \E e \in 1..MaxExp : Pow(text.distinct, e) = text.reps

\* 100 * (0.55 * min(entropy_norm, 1.0) + 0.45 * redundancy) as <<num, den>>
Level1Score(text) ==
    LET total == TokenCount(text)
        en == EntropyNorm(text)
        enNum == Min(en[1], en[2])
    IN  <<55 * enNum * total + 45 * text.distinct * en[2], en[2] * total>>

level1_screen(text) ==
    IF ~text.str
    THEN [pass |-> FALSE, score |-> 0, reason |-> "Invalid input"]
    ELSE IF TokenCount(text) < 30
    THEN [pass |-> FALSE, score |-> 0, reason |-> "Too short"]
    ELSE LET s == Level1Score(text)
             ok == s[1] >= 60 * s[2]
         IN  [pass |-> ok,
              score |-> RoundHalfEven(100 * s[1], s[2]),
              reason |-> IF ok THEN "OK" ELSE "Low signal"]

(***************************************************************************)
(* Level2technical.py                                                      *)
(*                                                                         *)
(* An answers value is [isdict, values]: isdict is FALSE for a value that  *)
(* is not a dict; values lists answers.values().  An entry is              *)
(* [isdict, hascorrect, correct]: whether v is a dict, whether "correct"   *)
(* is a key of it, and the truth value of v["correct"].                    *)
(***************************************************************************)
Entry(c) == [isdict |-> TRUE, hascorrect |-> TRUE, correct |-> c]
NoCorrectEntry == [isdict |-> TRUE, hascorrect |-> FALSE, correct |-> FALSE]
NonDictEntry == [isdict |-> FALSE, hascorrect |-> FALSE, correct |-> FALSE]
Answers(vs) == [isdict |-> TRUE, values |-> vs]
NoAnswers == [isdict |-> FALSE, values |-> <<>>]

\* A variant that grades every mapping, with or without "correct"
Gradable_AnyDict(v) == v.isdict

Gradable(v) == v.isdict /\ v.hascorrect

\* A variant whose total is len(answers)
CountTotal_AllEntries(vs) == Len(vs)

\* total and correct after the loop over answers.values(): the number of
\* entries that took each branch
CountTotal(vs) == Cardinality({i \in 1..Len(vs) : Gradable(vs[i])})

CountCorrect(vs) ==
    Cardinality({i \in 1..Len(vs) : Gradable(vs[i]) /\ vs[i].correct})

level2_technical(answers) ==
    IF ~answers.isdict \/ answers.values = <<>>
    THEN [pass |-> FALSE, prob_pass |-> 0, reason |-> "No answers"]
    ELSE LET total == CountTotal(answers.values)
             correct == CountCorrect(answers.values)
         IN  IF total = 0
             THEN [pass |-> FALSE, prob_pass |-> 0, reason |-> "Malformed input"]
             ELSE [pass |-> 2 * correct >= total,
                   prob_pass |-> RoundHalfEven(1000 * correct, total),
                   reason |-> IF 2 * correct >= total THEN "OK"
                              ELSE "Weak technical fundamentals"]

(***************************************************************************)
(* Level3scenario.py                                                       *)
(*                                                                         *)
(* A scenario answer is [str, steps]: steps lists the non-empty segments   *)
(* of re.split(r"[.\n]+", answer), each as [phases, dims], the phases and  *)
(* the dimensions one of whose keywords is a substring of the segment.     *)
(***************************************************************************)
PHASES == {"diagnose", "contain", "fix", "prevent"}
DIMENSIONS == {"risk", "cost", "time", "reliability"}

Step(ps, ds) == [phases |-> ps, dims |-> ds]
Scenario(steps) == [str |-> TRUE, steps |-> steps]
NoScenario == [str |-> FALSE, steps |-> <<>>]
ListScenario == [str |-> FALSE, steps |-> <<>>, list |-> TRUE]

\* set(phase_hits)
PhaseSet(steps) == UNION {steps[i].phases : i \in 1..Len(steps)}

\* dim_hits: the segments with a non-empty dimension set
DimHits(steps) == {i \in 1..Len(steps) : steps[i].dims # {}}

RECURSIVE SumOver(_, _, _)
SumOver(steps, idx, d) ==
    IF idx = {} THEN 0
    ELSE LET i == CHOOSE i \in idx : TRUE
         IN  (IF d = "" THEN Cardinality(steps[i].dims)
              ELSE IF d \in steps[i].dims THEN 1 ELSE 0)
             + SumOver(steps, idx \ {i}, d)

\* len(flat_dims) = sum(len(d) for d in dim_hits)
FlatCount(steps) == SumOver(steps, DimHits(steps), "")

\* Counter(flat_dims)[d]
DimCount(steps, d) == SumOver(steps, DimHits(steps), d)

\* A variant whose dominance is always 1
MaxDimCount_AllHits(steps) == FlatCount(steps)

\* max(Counter(flat_dims).values())
MaxDimCount(steps) ==
    CHOOSE c \in 0..Len(steps) :
        /\ \E d \in DIMENSIONS : DimCount(steps, d) = c
        /\ \A d \in DIMENSIONS : DimCount(steps, d) <= c

\* 100 * (0.45 * flow + 0.35 * tradeoff + 0.20 * stability) as <<num, den>>,
\* with flow = P/4, tradeoff = S/(4n) and stability = (S - M)/S
Level3Score(steps) ==
    LET P == Cardinality(PhaseSet(steps))
        n == Cardinality(DimHits(steps))
        S == FlatCount(steps)
        M == MaxDimCount(steps)
        L == Cardinality(PHASES)
        D == Cardinality(DIMENSIONS)
    IN  IF n = 0 THEN <<45 * P, L>>
        ELSE <<45 * P * D * n * S + 35 * S * S * L + 20 * (S - M) * L * D * n,
               L * D * n * S>>

level3_scenario(answer) ==
    IF ~answer.str
    THEN [pass |-> FALSE, score |-> 0, reason |-> "Invalid input"]
    ELSE IF Len(answer.steps) < 2
    THEN [pass |-> FALSE, score |-> 0, reason |-> "Too shallow"]
    ELSE LET s == Level3Score(answer.steps)
             ok == s[1] >= 75 * s[2]
         IN  [pass |-> ok,
              score |-> RoundHalfEven(100 * s[1], s[2]),
              reason |-> IF ok THEN "OK" ELSE "Weak scenario reasoning"]

(***************************************************************************)
(* db.py: the store.  candidates and sessions are tables keyed by their    *)
(* primary key; round_results lists its rows in insertion order.  Ids are  *)
(* positive integers, 0 stands for None (or any falsy id).                 *)
(***************************************************************************)
VARIABLES
    candidates,     \* table candidates: candidate_id -> row
    sessions,       \* table sessions: session_id -> row
    round_results,  \* table round_results: rows in creation order
    now,            \* the second _utc_now() reads
    entry,          \* the handler of each request, "" before it arrives
    pc,             \* position of each request in its handler
    payload,        \* argument of each request
    candidate_id,   \* local candidate_id of each request (0: not assigned)
    session_id,     \* local session_id of each request (0: not assigned)
    l1,             \* local l1 (result in screen_resume), NULL before the call
    l2,             \* local l2, NULL before the call
    l3,             \* local l3, NULL before the call
    result,         \* dict returned by each request, NULL before it returns
    api_calls,      \* number of direct calls to the store so far
    reply           \* what a direct read of the store returned in the latest step

tables == <<candidates, sessions, round_results>>
locals == <<entry, pc, payload, candidate_id, session_id, l1, l2, l3, result>>
vars == <<candidates, sessions, round_results, now, entry, pc, payload,
          candidate_id, session_id, l1, l2, l3, result, api_calls, reply>>

DB == [candidates |-> candidates, sessions |-> sessions,
       round_results |-> round_results]

\* _new_id(prefix): an id no row of the table has
_new_id(ids) == CHOOSE n \in 1..(Cardinality(ids) + 1) : n \notin ids

\* json.dumps(v) and json.loads(s)
JsonDumps(v) == [json |-> v]
JsonLoads(s) == s.json

\* str(v)
PyStr(v) == [repr |-> v]

\* `v or default`
Or(v, default) == IF v = NULL THEN default ELSE v

\* Variant: the work of a failed block is committed
get_conn_NoRollback(db, body, fault) ==
    IF fault \/ body.raised
    THEN [db |-> body.db, ret |-> 0, raised |-> TRUE]
    ELSE body

\* with get_conn() as conn: body.  body is the outcome of the block run on
\* db; fault says that a statement or the commit fails.  Commit on success,
\* rollback and re-raise otherwise.
get_conn(db, body, fault) ==
    IF fault \/ body.raised
    THEN [db |-> db, ret |-> 0, raised |-> TRUE]
    ELSE body

\* Variant: INSERT OR REPLACE, which writes the whole row again
upsert_candidate_Replace(db, full_name, email, phone, role, cand_id, t, fault) ==
    LET cid == IF cand_id # 0 THEN cand_id ELSE _new_id(DOMAIN db.candidates)
        row == [candidate_id |-> cid,
                full_name |-> full_name,
                email |-> email,
                phone |-> phone,
                role |-> role,
                created_at |-> t]
        body ==
            IF cid \in DOMAIN db.candidates
            THEN [db |-> [db EXCEPT !.candidates[cid] = row],
                  ret |-> cid, raised |-> FALSE]
            ELSE [db |-> [db EXCEPT !.candidates = @ @@ (cid :> row)],
                  ret |-> cid, raised |-> FALSE]
    IN  get_conn(db, body, fault)

upsert_candidate(db, full_name, email, phone, role, cand_id, t, fault) ==
    LET cid == IF cand_id # 0 THEN cand_id ELSE _new_id(DOMAIN db.candidates)
        body ==
            IF cid \in DOMAIN db.candidates
            THEN [db |-> [db EXCEPT !.candidates[cid] =
                            [@ EXCEPT !.full_name = full_name,
                                      !.email = email,
                                      !.phone = phone,
                                      !.role = role]],
                  ret |-> cid, raised |-> FALSE]
            ELSE [db |-> [db EXCEPT !.candidates = @ @@ (cid :>
                            [candidate_id |-> cid,
                             full_name |-> full_name,
                             email |-> email,
                             phone |-> phone,
                             role |-> role,
                             created_at |-> t])],
                  ret |-> cid, raised |-> FALSE]
    IN  get_conn(db, body, fault)

\* Variant: an IN_PROGRESS session of the candidate is resumed
create_session_Resume(db, cand_id, t, fault) ==
    LET sid == _new_id(DOMAIN db.sessions)
        open == {s \in DOMAIN db.sessions :
                    /\ db.sessions[s].candidate_id = cand_id
                    /\ db.sessions[s].status = "IN_PROGRESS"}
        body ==
            IF cand_id \notin DOMAIN db.candidates
            THEN [db |-> db, ret |-> 0, raised |-> TRUE]
            ELSE IF open # {}
            THEN [db |-> db, ret |-> CHOOSE s \in open : TRUE, raised |-> FALSE]
            ELSE [db |-> [db EXCEPT !.sessions = @ @@ (sid :>
                            [session_id |-> sid,
                             candidate_id |-> cand_id,
                             status |-> "IN_PROGRESS",
                             final_score |-> NULL,
                             final_decision |-> NULL,
                             created_at |-> t,
                             completed_at |-> NULL])],
                  ret |-> sid, raised |-> FALSE]
    IN  get_conn(db, body, fault)

\* FOREIGN KEY(candidate_id) REFERENCES candidates: the insert raises when
\* the candidate does not exist.
create_session(db, cand_id, t, fault) ==
    LET sid == _new_id(DOMAIN db.sessions)
        body ==
            IF cand_id \notin DOMAIN db.candidates
            THEN [db |-> db, ret |-> 0, raised |-> TRUE]
            ELSE [db |-> [db EXCEPT !.sessions = @ @@ (sid :>
                            [session_id |-> sid,
                             candidate_id |-> cand_id,
                             status |-> "IN_PROGRESS",
                             final_score |-> NULL,
                             final_decision |-> NULL,
                             created_at |-> t,
                             completed_at |-> NULL])],
                  ret |-> sid, raised |-> FALSE]
    IN  get_conn(db, body, fault)

\* sqlite3 binds None, numbers and strings to a column; for a list or a dict
\* execute raises "Error binding parameter".
Bindable(v) == "list" \notin DOMAIN v

\* Variant: INSERT OR REPLACE keyed by (session_id, round_no), so that a
\* second result for a round takes the place of the first
save_round_result_Replace(db, sess_id, round_no, owner, question, answer, raw_score, score, passed, threshold, question_id, violations, metrics, features, entropy_value, t, fault) ==
    LET old == {i \in 1..Len(db.round_results) :
                    /\ db.round_results[i].session_id = sess_id
                    /\ db.round_results[i].round_no = round_no}
        rid == IF old = {} THEN Len(db.round_results) + 1 ELSE CHOOSE i \in old : TRUE
        row == [result_id |-> rid,
                session_id |-> sess_id,
                round_no |-> round_no,
                owner |-> owner,
                question_id |-> question_id,
                question |-> question,
                answer |-> answer,
                raw_score |-> raw_score,
                score |-> score,
                passed |-> IF passed THEN 1 ELSE 0,
                threshold |-> threshold,
                violations_json |-> JsonDumps(Or(violations, <<>>)),
                metrics_json |-> JsonDumps(Or(metrics, <<>>)),
                features_json |-> JsonDumps(Or(features, <<>>)),
                entropy_value |-> entropy_value,
                created_at |-> t]
        body ==
            IF sess_id \notin DOMAIN db.sessions \/ ~Bindable(answer)
            THEN [db |-> db, ret |-> 0, raised |-> TRUE]
            ELSE [db |-> [db EXCEPT !.round_results =
                            IF old = {} THEN Append(@, row)
                            ELSE [@ EXCEPT ![rid] = row]],
                  ret |-> rid, raised |-> FALSE]
    IN  get_conn(db, body, fault)

\* FOREIGN KEY(session_id) REFERENCES sessions: the insert raises when the
\* session does not exist, and when the answer is no value of a column.  int(round_no) and float(...) keep the value of
\* the numbers they are given.
save_round_result(db, sess_id, round_no, owner, question, answer, raw_score, score, passed, threshold, question_id, violations, metrics, features, entropy_value, t, fault) ==
    LET rid == Len(db.round_results) + 1
        body ==
            IF sess_id \notin DOMAIN db.sessions \/ ~Bindable(answer)
            THEN [db |-> db, ret |-> 0, raised |-> TRUE]
            ELSE [db |-> [db EXCEPT !.round_results = Append(@,
                            [result_id |-> rid,
                             session_id |-> sess_id,
                             round_no |-> round_no,
                             owner |-> owner,
                             question_id |-> question_id,
                             question |-> question,
                             answer |-> answer,
                             raw_score |-> raw_score,
                             score |-> score,
                             passed |-> IF passed THEN 1 ELSE 0,
                             threshold |-> threshold,
                             violations_json |-> JsonDumps(Or(violations, <<>>)),
                             metrics_json |-> JsonDumps(Or(metrics, <<>>)),
                             features_json |-> JsonDumps(Or(features, <<>>)),
                             entropy_value |-> entropy_value,
                             created_at |-> t])],
                  ret |-> rid, raised |-> FALSE]
    IN  get_conn(db, body, fault)

\* Variant: the UPDATE has no WHERE session_id=? and closes every open session
complete_session_AllOpen(db, sess_id, final_score, final_decision, t, fault) ==
    LET body ==
            [db |-> [db EXCEPT !.sessions =
                        [x \in DOMAIN @ |->
                            IF @[x].status = "IN_PROGRESS"
                            THEN [@[x] EXCEPT !.status = "COMPLETED",
                                              !.final_score = Some(final_score),
                                              !.final_decision = Some(final_decision),
                                              !.completed_at = Some(t)]
                            ELSE @[x]]],
             ret |-> 0, raised |-> FALSE]
    IN  get_conn(db, body, fault)

\* Variant: a HOLD leaves the session open for a later decision
complete_session_HoldReopens(db, sess_id, final_score, final_decision, t, fault) ==
    LET body ==
            IF sess_id \notin DOMAIN db.sessions
            THEN [db |-> db, ret |-> 0, raised |-> FALSE]
            ELSE [db |-> [db EXCEPT !.sessions[sess_id] =
                            [@ EXCEPT !.status = IF final_decision = "HOLD"
                                                 THEN "IN_PROGRESS"
                                                 ELSE "COMPLETED",
                                      !.final_score = Some(final_score),
                                      !.final_decision = Some(final_decision),
                                      !.completed_at = Some(t)]],
                  ret |-> 0, raised |-> FALSE]
    IN  get_conn(db, body, fault)

\* Variant: the UPDATE leaves completed_at out
complete_session_NoTimestamp(db, sess_id, final_score, final_decision, t, fault) ==
    LET body ==
            IF sess_id \notin DOMAIN db.sessions
            THEN [db |-> db, ret |-> 0, raised |-> FALSE]
            ELSE [db |-> [db EXCEPT !.sessions[sess_id] =
                            [@ EXCEPT !.status = "COMPLETED",
                                      !.final_score = Some(final_score),
                                      !.final_decision = Some(final_decision)]],
                  ret |-> 0, raised |-> FALSE]
    IN  get_conn(db, body, fault)

\* UPDATE sessions SET status, final_score, final_decision, completed_at
\* WHERE session_id=?: no row is touched when the session does not exist.
complete_session(db, sess_id, final_score, final_decision, t, fault) ==
    LET body ==
            IF sess_id \notin DOMAIN db.sessions
            THEN [db |-> db, ret |-> 0, raised |-> FALSE]
            ELSE [db |-> [db EXCEPT !.sessions[sess_id] =
                            [@ EXCEPT !.status = "COMPLETED",
                                      !.final_score = Some(final_score),
                                      !.final_decision = Some(final_decision),
                                      !.completed_at = Some(t)]],
                  ret |-> 0, raised |-> FALSE]
    IN  get_conn(db, body, fault)

\* The orders of the rows idx that a sort by key (ascending) may return:
\* rows with equal keys come in any order.
RECURSIVE SortedSeqs(_, _)
SortedSeqs(idx, key) ==
    IF idx = {} THEN {<<>>}
    ELSE UNION {{<<i>> \o s : s \in SortedSeqs(idx \ {i}, key)} :
                i \in {j \in idx : \A k \in idx : key[j] <= key[k]}}

get_session(db, sess_id) ==
    IF sess_id \notin DOMAIN db.sessions THEN NULL ELSE db.sessions[sess_id]

\* ORDER BY round_no ASC, created_at ASC; the set of lists it may return
get_round_results(db, sess_id) ==
    LET rows == db.round_results
        idx == {i \in 1..Len(rows) : rows[i].session_id = sess_id}
        key == [i \in idx |-> rows[i].round_no * (MaxTime + 2) + rows[i].created_at]
        out(r) == [result_id |-> r.result_id,
                   session_id |-> r.session_id,
                   round_no |-> r.round_no,
                   owner |-> r.owner,
                   question_id |-> r.question_id,
                   question |-> r.question,
                   answer |-> r.answer,
                   raw_score |-> r.raw_score,
                   score |-> r.score,
                   passed |-> r.passed # 0,
                   threshold |-> r.threshold,
                   violations |-> JsonLoads(r.violations_json),
                   metrics |-> JsonLoads(r.metrics_json),
                   features |-> JsonLoads(r.features_json),
                   entropy_value |-> r.entropy_value,
                   created_at |-> r.created_at]
    IN  {[n \in 1..Len(s) |-> out(rows[s[n]])] : s \in SortedSeqs(idx, key)}

\* ORDER BY created_at DESC LIMIT ?; the set of lists it may return
list_sessions(db, cand_id, limit) ==
    LET idx == {s \in DOMAIN db.sessions :
                    cand_id = 0 \/ db.sessions[s].candidate_id = cand_id}
        key == [s \in idx |-> 0 - db.sessions[s].created_at]
    IN  {[n \in 1..Min(limit, Len(s)) |-> db.sessions[s[n]]] :
            s \in SortedSeqs(idx, key)}

(***************************************************************************)
(* Requests.  A request is an invocation of evaluate_candidate or a POST   *)
(* to /screen_resume; requests are numbered in the order in which they     *)
(* arrive.  A request advances by one storage call at a time, each call    *)
(* being one transaction; a scorer call and the statements up to the next  *)
(* storage call touch only locals and belong to the step of that storage   *)
(* call.                                                                   *)
(***************************************************************************)
GoodScenario ==
    Scenario(<<Step({"diagnose", "fix"}, DIMENSIONS),
               Step({"contain", "prevent"}, DIMENSIONS)>>)
WeakScenario ==
    Scenario(<<Step({"diagnose"}, {}), Step({"contain"}, {}),
               Step({"prevent"}, {})>>)

\* The payloads a caller hands to evaluate_candidate: one that is hired, one
\* held at Level 3, one rejected at Level 2 and one rejected at Level 1
Payloads ==
    { [full_name |-> "Ada", email |-> "ada@x.org", phone |-> "555",
       role |-> "SRE", resume_text |-> Text(30, 1),
       technical_answers |-> Answers(<<Entry(TRUE), Entry(FALSE)>>),
       scenario_answer |-> GoodScenario],
      [full_name |-> "Bob", resume_text |-> Text(16, 2),
       technical_answers |-> Answers(<<Entry(TRUE), NonDictEntry>>),
       scenario_answer |-> WeakScenario],
      [full_name |-> "Ada", email |-> "ada@x.org", phone |-> "555",
       role |-> "SRE", resume_text |-> Text(30, 1),
       technical_answers |->
           Answers(<<Entry(TRUE), Entry(FALSE), Entry(FALSE), NoCorrectEntry>>),
       scenario_answer |-> GoodScenario],
      [role |-> "SRE", resume_text |-> Text(6, 6)] }

\* Scenario answers that name all four phases and every dimension equally
\* often: each dimension once in a segment of its own, each dimension once in
\* two segments, no dimension at all, and each dimension three times over
\* seven segments
SpreadScenario ==
    Scenario(<<Step({"diagnose"}, {"risk"}), Step({"contain"}, {"cost"}),
               Step({"fix"}, {"time"}), Step({"prevent"}, {"reliability"})>>)
PairedScenario ==
    Scenario(<<Step({"diagnose", "contain"}, {"risk", "cost"}),
               Step({"fix", "prevent"}, {"time", "reliability"})>>)
BareScenario ==
    Scenario(<<Step({"diagnose", "contain"}, {}), Step({"fix", "prevent"}, {})>>)
EdgeScenario ==
    Scenario(<<Step({"diagnose"}, {"risk", "cost"}),
               Step({"contain"}, {"time", "reliability"}),
               Step({"fix"}, {"risk", "cost"}),
               Step({"prevent"}, {"time", "reliability"}),
               Step({}, {"risk", "cost"}),
               Step({}, {"time"}),
               Step({}, {"reliability"})>>)

\* Sixteen segments whose score, 74.9978, is rounded to 75.0: three name every
\* phase and risk, cost and time, thirteen name risk and cost
RoundedUpScenario ==
    Scenario([i \in 1..16 |->
                 IF i <= 3 THEN Step(PHASES, {"risk", "cost", "time"})
                 ELSE Step({}, {"risk", "cost"})])

\* Payloads at the edges of the scorers' input: a resume, an answer map or a
\* scenario that is missing, of the wrong type, empty, too short, malformed
\* or too shallow, payloads that pass Level 1 and Level 2 with every
\* answer correct, and two whose Level 3 score and Level 2 prob_pass are
\* rounded up to the threshold
EdgePayloads ==
    { [full_name |-> "Cy"],
      [full_name |-> "Cy", resume_text |-> NoText],
      [full_name |-> "Cy", resume_text |-> ListText],
      [full_name |-> "Cy", resume_text |-> EmptyText],
      [full_name |-> "Cy", resume_text |-> Text(20, 1)],
      [full_name |-> "Cy", resume_text |-> Text(30, 1)],
      [full_name |-> "Cy", resume_text |-> Text(30, 1),
       technical_answers |-> NoAnswers],
      [full_name |-> "Cy", resume_text |-> Text(30, 1),
       technical_answers |-> Answers(<<>>)],
      [full_name |-> "Cy", resume_text |-> Text(30, 1),
       technical_answers |-> Answers(<<NonDictEntry, NoCorrectEntry>>)],
      [full_name |-> "Cy", resume_text |-> Text(30, 1),
       technical_answers |-> Answers(<<Entry(TRUE)>>)],
      [full_name |-> "Cy", resume_text |-> Text(30, 1),
       technical_answers |-> Answers(<<Entry(TRUE)>>),
       scenario_answer |-> NoScenario],
      [full_name |-> "Cy", resume_text |-> Text(30, 1),
       technical_answers |-> Answers(<<Entry(TRUE)>>),
       scenario_answer |-> ListScenario],
      [full_name |-> "Cy", resume_text |-> Text(30, 1),
       technical_answers |-> Answers(<<Entry(TRUE)>>),
       scenario_answer |-> Scenario(<<Step(PHASES, DIMENSIONS)>>)] }
    \cup
    { [full_name |-> "Di", resume_text |-> text,
       technical_answers |-> Answers(vs), scenario_answer |-> answer] :
        text \in {Text(30, 1), Text(16, 2)},
        vs \in {<<Entry(TRUE)>>, <<Entry(TRUE), Entry(TRUE), Entry(TRUE)>>},
        answer \in {GoodScenario, SpreadScenario, PairedScenario, BareScenario,
                    EdgeScenario} }
    \cup
    { [full_name |-> "Eve", resume_text |-> Text(30, 1),
       technical_answers |-> Answers(<<Entry(TRUE)>>),
       scenario_answer |-> RoundedUpScenario],
      [full_name |-> "Eve", resume_text |-> Text(30, 1),
       technical_answers |-> Answers([i \in 1..1001 |-> Entry(i <= 500)]),
       scenario_answer |-> GoodScenario] }

\* The uploads a caller posts to /screen_resume
Uploads ==
    { [resume |-> Text(30, 1), role |-> "SRE"],
      [resume |-> Text(6, 6), role |-> "QA"] }

\* Each scorer on the inputs the requests carry.  The scorers are pure, so
\* their results are worked out once.
Level1Result ==
    [text \in {Get(p, "resume_text", EmptyText) : p \in Payloads \cup EdgePayloads}
                \cup {u.resume : u \in Uploads} |-> level1_screen(text)]
Level2Result ==
    [answers \in {Get(p, "technical_answers", Answers(<<>>)) :
                    p \in Payloads \cup EdgePayloads}
        |-> level2_technical(answers)]
Level3Result ==
    [answer \in {Get(p, "scenario_answer", Scenario(<<>>)) :
                    p \in Payloads \cup EdgePayloads}
        |-> level3_scenario(answer)]

Init ==
    /\ candidates = <<>>
    /\ sessions = <<>>
    /\ round_results = <<>>
    /\ now = 0
    /\ entry = [p \in Requests |-> ""]
    /\ pc = [p \in Requests |-> "idle"]
    /\ payload = [p \in Requests |-> NULL]
    /\ candidate_id = [p \in Requests |-> 0]
    /\ session_id = [p \in Requests |-> 0]
    /\ l1 = [p \in Requests |-> NULL]
    /\ l2 = [p \in Requests |-> NULL]
    /\ l3 = [p \in Requests |-> NULL]
    /\ result = [p \in Requests |-> NULL]
    /\ api_calls = 0
    /\ reply = NULL

\* The store after the storage call whose outcome is out
Commit(out) ==
    /\ candidates' = out.db.candidates
    /\ sessions' = out.db.sessions
    /\ round_results' = out.db.round_results

\* Requests arrive in the order of their numbers
Arrives(p) ==
    /\ pc[p] = "idle"
    /\ \A q \in Requests : q < p => pc[q] # "idle"

\* The clock moves on
Tick ==
    /\ now < MaxTime
    /\ now' = now + 1
    /\ reply' = NULL
    /\ UNCHANGED <<tables, locals, api_calls>>

(***************************************************************************)
(* pipeline.py: evaluate_candidate(payload), run r                         *)
(***************************************************************************)
\* Variant: a candidate of the same name is looked up and its id passed on
UpsertPayloadCandidate_ByName(db, p, t, fault) ==
    LET same == {c \in DOMAIN db.candidates :
                    db.candidates[c].full_name = Get(p, "full_name", "Unknown")}
    IN  upsert_candidate(db, Get(p, "full_name", "Unknown"), Get(p, "email", ""),
                         Get(p, "phone", ""), Get(p, "role", "Backend Engineer"),
                         IF same = {} THEN 0 ELSE CHOOSE c \in same : TRUE,
                         t, fault)

\* lines 39-44
UpsertPayloadCandidate(db, p, t, fault) ==
    upsert_candidate(db, Get(p, "full_name", "Unknown"), Get(p, "email", ""),
                     Get(p, "phone", ""), Get(p, "role", "Backend Engineer"),
                     0, t, fault)

\* lines 54-65
SaveRound1(db, sid, resume_text, l, t, fault) ==
    save_round_result(db, sid, 1, "Interviewer L1", "Resume Screening",
                      resume_text, Get(l, "score", 0), Get(l, "score", 0),
                      Get(l, "pass", FALSE), 6000,
                      NULL, NULL, NULL, l, NULL, t, fault)

\* Variant: the failure branch after round 1 is missing
Branch1_NoShortCircuit(l) == "level2"

\* Variant: a Level 1 pass goes straight to Level 3
Branch1_SkipLevel2(l) == IF ~Get(l, "pass", FALSE) THEN "reject1" ELSE "level3"

\* line 67: the position after round 1 is saved
Branch1(l) == IF ~Get(l, "pass", FALSE) THEN "reject1" ELSE "level2"

\* lines 68-72
CompleteReject1(db, sid, l, t, fault) ==
    complete_session(db, sid, Get(l, "score", 0), "REJECT", t, fault)

\* lines 73-78
Level1Failure(sid, l1v) ==
    [final_pass |-> FALSE,
     failed_at |-> "level1",
     session_id |-> sid,
     level1 |-> l1v]

\* l2.get("prob_pass", 0.0) * 100.0: thousandths to hundredths of a point
Level2Points(l) == Get(l, "prob_pass", 0) * 10

\* Variant: round 2 saved with the threshold of round 1
SaveRound2_Threshold60(db, sid, technical_answers, l, t, fault) ==
    save_round_result(db, sid, 2, "Interviewer L2", "Technical Evaluation",
                      PyStr(technical_answers), Level2Points(l), Level2Points(l),
                      Get(l, "pass", FALSE), 6000,
                      NULL, NULL, l, NULL, NULL, t, fault)

\* Variant: round 2 goes to the session created last, whichever run owns it
SaveRound2_LatestSession(db, sid, technical_answers, l, t, fault) ==
    save_round_result(db, CHOOSE x \in DOMAIN db.sessions :
                              \A y \in DOMAIN db.sessions : y <= x,
                      2, "Interviewer L2", "Technical Evaluation",
                      PyStr(technical_answers), Level2Points(l), Level2Points(l),
                      Get(l, "pass", FALSE), 5000,
                      NULL, NULL, l, NULL, NULL, t, fault)

\* lines 86-97
SaveRound2(db, sid, technical_answers, l, t, fault) ==
    save_round_result(db, sid, 2, "Interviewer L2", "Technical Evaluation",
                      PyStr(technical_answers), Level2Points(l), Level2Points(l),
                      Get(l, "pass", FALSE), 5000,
                      NULL, NULL, l, NULL, NULL, t, fault)

\* Variant: a Level 2 failure goes on to Level 3
Branch2_NoReject(l) == "level3"

\* line 99: the position after round 2 is saved
Branch2(l) == IF ~Get(l, "pass", FALSE) THEN "reject2" ELSE "level3"

\* Variant: the rejection at Level 2 reads l2.get("score", 0.0)
CompleteReject2_ScoreKey(db, sid, l, t, fault) ==
    complete_session(db, sid, Get(l, "score", 0), "REJECT", t, fault)

\* lines 100-104
CompleteReject2(db, sid, l, t, fault) ==
    complete_session(db, sid, Level2Points(l), "REJECT", t, fault)

\* lines 105-111
Level2Failure(sid, l1v, l2v) ==
    [final_pass |-> FALSE,
     failed_at |-> "level2",
     session_id |-> sid,
     level1 |-> l1v,
     level2 |-> l2v]

\* Variant: round 3 saved under round_no 1
SaveRound3_RoundNo1(db, sid, scenario_answer, l, t, fault) ==
    save_round_result(db, sid, 1, "Interviewer L3", "Scenario-Based Reasoning",
                      scenario_answer, Get(l, "score", 0), Get(l, "score", 0),
                      Get(l, "pass", FALSE), 7500,
                      NULL, NULL, l, NULL, NULL, t, fault)

\* lines 119-130
SaveRound3(db, sid, scenario_answer, l, t, fault) ==
    save_round_result(db, sid, 3, "Interviewer L3", "Scenario-Based Reasoning",
                      scenario_answer, Get(l, "score", 0), Get(l, "score", 0),
                      Get(l, "pass", FALSE), 7500,
                      NULL, NULL, l, NULL, NULL, t, fault)

\* Variant: a Level 3 failure is decided REJECT
FinalDecision_Reject(l) == IF Get(l, "pass", FALSE) THEN "HIRE" ELSE "REJECT"

\* line 135
FinalDecision(l) == IF Get(l, "pass", FALSE) THEN "HIRE" ELSE "HOLD"

\* lines 137-141
CompleteFinal(db, sid, l, t, fault) ==
    complete_session(db, sid, Get(l, "score", 0), FinalDecision(l), t, fault)

\* lines 143-150
FinalBundle(sid, l1v, l2v, l3v) ==
    [final_pass |-> Get(l3v, "pass", FALSE),
     decision |-> FinalDecision(l3v),
     session_id |-> sid,
     level1 |-> l1v,
     level2 |-> l2v,
     level3 |-> l3v]

\* lines 39-44: upsert_candidate, for a call with one of the payloads ps
EvalUpsertCandidateWith(r, ps) ==
    /\ Arrives(r)
    /\ entry' = [entry EXCEPT ![r] = "evaluate_candidate"]
    /\ \E p \in ps, fault \in BOOLEAN :
        LET out == UpsertPayloadCandidate(DB, p, now, fault)
        IN  /\ Commit(out)
            /\ payload' = [payload EXCEPT ![r] = p]
            /\ candidate_id' = [candidate_id EXCEPT ![r] = out.ret]
            /\ pc' = [pc EXCEPT ![r] = IF out.raised THEN "error"
                                       ELSE "create_session"]
    /\ reply' = NULL
    /\ UNCHANGED <<now, session_id, l1, l2, l3, result, api_calls>>

EvalUpsertCandidate(r) == EvalUpsertCandidateWith(r, Payloads)

\* line 46: create_session
EvalCreateSession(r) ==
    /\ pc[r] = "create_session"
    /\ \E fault \in BOOLEAN :
        LET out == create_session(DB, candidate_id[r], now, fault)
        IN  /\ Commit(out)
            /\ session_id' = [session_id EXCEPT ![r] = out.ret]
            /\ pc' = [pc EXCEPT ![r] = IF out.raised THEN "error" ELSE "level1"]
    /\ reply' = NULL
    /\ UNCHANGED <<now, entry, payload, candidate_id, l1, l2, l3, result, api_calls>>

\* lines 51-67: level1_screen, save_round_result, branch on l1["pass"]
EvalLevel1(r) ==
    /\ pc[r] = "level1"
    /\ \E fault \in BOOLEAN :
        LET resume_text == Get(payload[r], "resume_text", EmptyText)
            l == Level1Result[resume_text]
            out == SaveRound1(DB, session_id[r], resume_text, l, now, fault)
        IN  /\ Commit(out)
            /\ l1' = [l1 EXCEPT ![r] = l]
            /\ pc' = [pc EXCEPT ![r] = IF out.raised THEN "error" ELSE Branch1(l)]
    /\ reply' = NULL
    /\ UNCHANGED <<now, entry, payload, candidate_id, session_id, l2, l3, result,
                   api_calls>>

\* lines 68-78: complete_session, return the level1 failure
EvalRejectLevel1(r) ==
    /\ pc[r] = "reject1"
    /\ \E fault \in BOOLEAN :
        LET out == CompleteReject1(DB, session_id[r], l1[r], now, fault)
        IN  /\ Commit(out)
            /\ pc' = [pc EXCEPT ![r] = IF out.raised THEN "error" ELSE "done"]
            /\ result' = [result EXCEPT ![r] =
                            IF out.raised THEN NULL
                            ELSE Level1Failure(session_id[r], l1[r])]
    /\ reply' = NULL
    /\ UNCHANGED <<now, entry, payload, candidate_id, session_id, l1, l2, l3,
                   api_calls>>

\* lines 83-99: level2_technical, save_round_result, branch on l2["pass"]
EvalLevel2(r) ==
    /\ pc[r] = "level2"
    /\ \E fault \in BOOLEAN :
        LET technical_answers == Get(payload[r], "technical_answers", Answers(<<>>))
            l == Level2Result[technical_answers]
            out == SaveRound2(DB, session_id[r], technical_answers, l, now, fault)
        IN  /\ Commit(out)
            /\ l2' = [l2 EXCEPT ![r] = l]
            /\ pc' = [pc EXCEPT ![r] = IF out.raised THEN "error" ELSE Branch2(l)]
    /\ reply' = NULL
    /\ UNCHANGED <<now, entry, payload, candidate_id, session_id, l1, l3, result,
                   api_calls>>

\* lines 100-111: complete_session, return the level2 failure
EvalRejectLevel2(r) ==
    /\ pc[r] = "reject2"
    /\ \E fault \in BOOLEAN :
        LET out == CompleteReject2(DB, session_id[r], l2[r], now, fault)
        IN  /\ Commit(out)
            /\ pc' = [pc EXCEPT ![r] = IF out.raised THEN "error" ELSE "done"]
            /\ result' = [result EXCEPT ![r] =
                            IF out.raised THEN NULL
                            ELSE Level2Failure(session_id[r], l1[r], l2[r])]
    /\ reply' = NULL
    /\ UNCHANGED <<now, entry, payload, candidate_id, session_id, l1, l2, l3,
                   api_calls>>

\* lines 116-130: level3_scenario, save_round_result
EvalLevel3(r) ==
    /\ pc[r] = "level3"
    /\ \E fault \in BOOLEAN :
        LET scenario_answer == Get(payload[r], "scenario_answer", Scenario(<<>>))
            l == Level3Result[scenario_answer]
            out == SaveRound3(DB, session_id[r], scenario_answer, l, now, fault)
        IN  /\ Commit(out)
            /\ l3' = [l3 EXCEPT ![r] = l]
            /\ pc' = [pc EXCEPT ![r] = IF out.raised THEN "error" ELSE "final"]
    /\ reply' = NULL
    /\ UNCHANGED <<now, entry, payload, candidate_id, session_id, l1, l2, result,
                   api_calls>>

\* lines 135-150: complete_session, return the full bundle
EvalFinalDecision(r) ==
    /\ pc[r] = "final"
    /\ \E fault \in BOOLEAN :
        LET out == CompleteFinal(DB, session_id[r], l3[r], now, fault)
        IN  /\ Commit(out)
            /\ pc' = [pc EXCEPT ![r] = IF out.raised THEN "error" ELSE "done"]
            /\ result' = [result EXCEPT ![r] =
                            IF out.raised THEN NULL
                            ELSE FinalBundle(session_id[r], l1[r], l2[r], l3[r])]
    /\ reply' = NULL
    /\ UNCHANGED <<now, entry, payload, candidate_id, session_id, l1, l2, l3,
                   api_calls>>

evaluate_candidate(r) ==
    \/ EvalUpsertCandidate(r)
    \/ EvalCreateSession(r)
    \/ EvalLevel1(r)
    \/ EvalRejectLevel1(r)
    \/ EvalLevel2(r)
    \/ EvalRejectLevel2(r)
    \/ EvalLevel3(r)
    \/ EvalFinalDecision(r)

(***************************************************************************)
(* Main.py: POST /screen_resume, request p.  resume.read() and the decode  *)
(* either give the text of the upload or end the request with HTTP 400.    *)
(***************************************************************************)
\* lines 77-89: read the upload, upsert_candidate
ScreenUpsertCandidate(p) ==
    /\ Arrives(p)
    /\ entry' = [entry EXCEPT ![p] = "screen_resume"]
    /\ \E u \in Uploads, unreadable \in BOOLEAN, fault \in BOOLEAN :
        LET out == IF unreadable THEN [db |-> DB, ret |-> 0, raised |-> TRUE]
                   ELSE upsert_candidate(DB, "Unknown", "", "", u.role,
                                         0, now, fault)
        IN  /\ Commit(out)
            /\ payload' = [payload EXCEPT ![p] = u]
            /\ candidate_id' = [candidate_id EXCEPT ![p] = out.ret]
            /\ pc' = [pc EXCEPT ![p] = IF out.raised THEN "error"
                                       ELSE "s_create_session"]
    /\ reply' = NULL
    /\ UNCHANGED <<now, session_id, l1, l2, l3, result, api_calls>>

\* line 90: create_session
ScreenCreateSession(p) ==
    /\ pc[p] = "s_create_session"
    /\ \E fault \in BOOLEAN :
        LET out == create_session(DB, candidate_id[p], now, fault)
        IN  /\ Commit(out)
            /\ session_id' = [session_id EXCEPT ![p] = out.ret]
            /\ pc' = [pc EXCEPT ![p] = IF out.raised THEN "error" ELSE "s_level1"]
    /\ reply' = NULL
    /\ UNCHANGED <<now, entry, payload, candidate_id, l1, l2, l3, result, api_calls>>

\* line 101: f"Resume screening for role: {role}"
ScreenQuestion(role) ==
    CASE role = "SRE" -> "Resume screening for role: SRE"
      [] role = "QA" -> "Resume screening for role: QA"
      [] OTHER -> "Resume screening for role: "

\* lines 95-108: level1_screen, save_round_result
ScreenLevel1(p) ==
    /\ pc[p] = "s_level1"
    /\ \E fault \in BOOLEAN :
        LET l == Level1Result[payload[p].resume]
            out == save_round_result(DB, session_id[p], 1, "Screening Engine",
                       ScreenQuestion(payload[p].role),
                       payload[p].resume,
                       Get(l, "score", 0), Get(l, "score", 0),
                       Get(l, "pass", FALSE), 6000,
                       NULL, NULL, NULL, l, NULL, now, fault)
        IN  /\ Commit(out)
            /\ l1' = [l1 EXCEPT ![p] = l]
            /\ pc' = [pc EXCEPT ![p] = IF out.raised THEN "error"
                                       ELSE "s_complete"]
    /\ reply' = NULL
    /\ UNCHANGED <<now, entry, payload, candidate_id, session_id, l2, l3, result,
                   api_calls>>

\* line 110
ScreenDecision(l) == IF Get(l, "pass", FALSE) THEN "PASS" ELSE "REJECT"

\* lines 110-124: complete_session, return the screening result
ScreenComplete(p) ==
    /\ pc[p] = "s_complete"
    /\ \E fault \in BOOLEAN :
        LET out == complete_session(DB, session_id[p], Get(l1[p], "score", 0),
                                    ScreenDecision(l1[p]), now, fault)
        IN  /\ Commit(out)
            /\ pc' = [pc EXCEPT ![p] = IF out.raised THEN "error" ELSE "done"]
            /\ result' = [result EXCEPT ![p] =
                    IF out.raised THEN NULL
                    ELSE [role |-> payload[p].role,
                          screening_pass |-> l1[p].pass,
                          score |-> l1[p].score,
                          reason |-> l1[p].reason,
                          session_id |-> session_id[p]]]
    /\ reply' = NULL
    /\ UNCHANGED <<now, entry, payload, candidate_id, session_id, l1, l2, l3,
                   api_calls>>

screen_resume(p) ==
    \/ ScreenUpsertCandidate(p)
    \/ ScreenCreateSession(p)
    \/ ScreenLevel1(p)
    \/ ScreenComplete(p)

(***************************************************************************)
(* db.py called directly: any caller may use the store's functions, with   *)
(* arguments of its own.  A call that raises leaves the store as it was.   *)
(* reply is what a read returned, until the next step.                     *)
(***************************************************************************)
DECISIONS == {"HIRE", "HOLD", "REJECT"}

\* an id no session has
NoSuchSession == _new_id(DOMAIN sessions)

\* One more direct call, a write
ApiCall ==
    /\ api_calls < MaxApiCalls
    /\ api_calls' = api_calls + 1
    /\ reply' = NULL
    /\ UNCHANGED <<now, locals>>

\* One more direct call, a read
ApiRead ==
    /\ api_calls < MaxApiCalls
    /\ api_calls' = api_calls + 1
    /\ UNCHANGED <<tables, now, locals>>

\* an id of the caller's own that no candidate has
OwnCandidateId == Cardinality(DOMAIN candidates) + 2

ApiUpsertCandidate ==
    /\ ApiCall
    /\ \E cid \in DOMAIN candidates \cup {0, OwnCandidateId} :
        Commit(upsert_candidate(DB, "Eve", "eve@x.org", "", "QA", cid,
                                now, FALSE))

ApiCreateSession ==
    /\ ApiCall
    /\ \E cid \in DOMAIN candidates \cup {_new_id(DOMAIN candidates)} :
        Commit(create_session(DB, cid, now, FALSE))

ApiSaveRoundResult ==
    /\ ApiCall
    /\ \E sid \in DOMAIN sessions \cup {NoSuchSession}, round_no \in 1..2 :
        Commit(save_round_result(DB, sid, round_no, "Reviewer", "Review",
                                 Text(2, 1), 4200, 4200, FALSE, 5000,
                                 NULL, NULL, NULL, NULL, NULL, now, FALSE))

ApiCompleteSession ==
    /\ ApiCall
    /\ \E sid \in DOMAIN sessions \cup {NoSuchSession}, d \in DECISIONS :
        Commit(complete_session(DB, sid, 4200, d, now, FALSE))

ApiGetSession ==
    /\ ApiRead
    /\ \E sid \in DOMAIN sessions \cup {NoSuchSession} :
        reply' = Some(get_session(DB, sid))

ApiGetRoundResults ==
    /\ ApiRead
    /\ \E sid \in DOMAIN sessions \cup {NoSuchSession} :
        \E rows \in get_round_results(DB, sid) : reply' = Some(rows)

ApiListSessions ==
    /\ ApiRead
    /\ \E cid \in DOMAIN candidates \cup {0}, limit \in {1, 50} :
        \E rows \in list_sessions(DB, cid, limit) : reply' = Some(rows)

\* The orchestrator alone, with the clock running
NextPipeline ==
    \/ Tick
    \/ \E r \in Requests : evaluate_candidate(r)

SpecPipeline == Init /\ [][NextPipeline]_vars

\* The orchestrator alone, all runs within one second of the clock
NextRuns == \E r \in Requests : evaluate_candidate(r)

SpecRuns == Init /\ [][NextRuns]_vars

\* A started run goes on to its next statement: evaluate_candidate is
\* synchronous code that waits for nothing but its own storage calls.
FairPipeline ==
    SpecRuns /\ \A r \in Requests : WF_vars(pc[r] # "idle" /\ evaluate_candidate(r))

\* One call of evaluate_candidate with a payload at the edges of the scorers'
\* input
NextInputs ==
    \/ EvalUpsertCandidateWith(1, EdgePayloads)
    \/ EvalCreateSession(1)
    \/ EvalLevel1(1)
    \/ EvalRejectLevel1(1)
    \/ EvalLevel2(1)
    \/ EvalRejectLevel2(1)
    \/ EvalLevel3(1)
    \/ EvalFinalDecision(1)

SpecInputs == Init /\ [][NextInputs]_vars

(***************************************************************************)
(* The Level 2 scorer on its own: two calls of level2_technical, each with *)
(* an answer map of its own.                                               *)
(***************************************************************************)
MaxEntries == 5
MaxJunk == 2

\* A map with t gradable entries, c of them correct, and j entries that are
\* not gradable
AnswersOf(c, t, j) ==
    Answers([i \in 1..(t + j) |->
                IF i <= c THEN Entry(TRUE)
                ELSE IF i <= t THEN Entry(FALSE)
                ELSE IF i % 2 = 0 THEN NonDictEntry ELSE NoCorrectEntry])

\* The maps handed to the scorer: every count of correct among up to
\* MaxEntries gradable entries with up to MaxJunk others, three larger maps,
\* the empty map and a value that is no dict
AnswerInputs ==
    UNION { { AnswersOf(c, t, j) : c \in 0..t, j \in 0..MaxJunk } :
                t \in 0..MaxEntries }
        \cup { AnswersOf(5, 28, 0), AnswersOf(7, 39, 0), AnswersOf(500, 1001, 0),
               NoAnswers }

InitLevel2 ==
    /\ candidates = <<>>
    /\ sessions = <<>>
    /\ round_results = <<>>
    /\ now = 0
    /\ entry = [p \in Requests |-> IF p <= 2 THEN "level2_technical" ELSE ""]
    /\ pc = [p \in Requests |-> IF p <= 2 THEN "call" ELSE "idle"]
    /\ \E a, b \in AnswerInputs :
          payload = [p \in Requests |->
                        IF p = 1 THEN [technical_answers |-> a]
                        ELSE IF p = 2 THEN [technical_answers |-> b]
                        ELSE NULL]
    /\ candidate_id = [p \in Requests |-> 0]
    /\ session_id = [p \in Requests |-> 0]
    /\ l1 = [p \in Requests |-> NULL]
    /\ l2 = [p \in Requests |-> NULL]
    /\ l3 = [p \in Requests |-> NULL]
    /\ result = [p \in Requests |-> NULL]
    /\ api_calls = 0
    /\ reply = NULL

\* level2_technical(answers) returns
Level2Call(p) ==
    /\ pc[p] = "call" /\ entry[p] = "level2_technical"
    /\ l2' = [l2 EXCEPT ![p] = level2_technical(payload[p].technical_answers)]
    /\ pc' = [pc EXCEPT ![p] = "return"]
    /\ UNCHANGED <<tables, now, entry, payload, candidate_id, session_id, l1, l3,
                   result, api_calls, reply>>

NextLevel2 == \E p \in Requests : Level2Call(p)

SpecLevel2 == InitLevel2 /\ [][NextLevel2]_vars

(***************************************************************************)
(* The Level 3 scorer on its own: one call of level3_scenario per request, *)
(* the first with a scenario drawn from ScenarioInputs.                    *)
(***************************************************************************)
MaxSteps == 3

\* What one segment can hit
StepKinds ==
    { Step(ps, ds) :
        ps \in {{}, {"diagnose"}, {"contain"}, {"fix", "prevent"}},
        ds \in {{}, {"risk"}, {"risk", "cost"}, {"time", "reliability"}} }

\* Sixteen segments: three name every phase and risk, cost and time, thirteen
\* name risk and cost
BoundaryScenario == RoundedUpScenario

\* The answers handed to the scorer: every text of up to n segments of these
\* kinds, the scenarios of the payloads, and values that are no str
ScenarioInputs(n) ==
    UNION { { Scenario(st) : st \in [1..k -> StepKinds] } : k \in 0..n }
        \cup { GoodScenario, WeakScenario, SpreadScenario, PairedScenario,
               BareScenario, EdgeScenario, BoundaryScenario, NoScenario,
               ListScenario }

InitLevel3 ==
    /\ candidates = <<>>
    /\ sessions = <<>>
    /\ round_results = <<>>
    /\ now = 0
    /\ entry = [p \in Requests |-> "level3_scenario"]
    /\ pc = [p \in Requests |-> "call"]
    /\ \E a \in ScenarioInputs(MaxSteps) :
          payload = [p \in Requests |->
                        [scenario_answer |-> IF p = 1 THEN a ELSE WeakScenario]]
    /\ candidate_id = [p \in Requests |-> 0]
    /\ session_id = [p \in Requests |-> 0]
    /\ l1 = [p \in Requests |-> NULL]
    /\ l2 = [p \in Requests |-> NULL]
    /\ l3 = [p \in Requests |-> NULL]
    /\ result = [p \in Requests |-> NULL]
    /\ api_calls = 0
    /\ reply = NULL

\* level3_scenario(answer) returns
Level3Call(p) ==
    /\ pc[p] = "call" /\ entry[p] = "level3_scenario"
    /\ l3' = [l3 EXCEPT ![p] = level3_scenario(payload[p].scenario_answer)]
    /\ pc' = [pc EXCEPT ![p] = "return"]
    /\ UNCHANGED <<tables, now, entry, payload, candidate_id, session_id, l1, l2,
                   result, api_calls, reply>>

NextLevel3 == \E p \in Requests : Level3Call(p)

SpecLevel3 == InitLevel3 /\ [][NextLevel3]_vars

\* Both entry points and the direct callers of the store, all within one
\* second of the clock
Next ==
    \/ \E p \in Requests : evaluate_candidate(p)
    \/ \E p \in Requests : screen_resume(p)
    \/ ApiUpsertCandidate
    \/ ApiCreateSession
    \/ ApiSaveRoundResult
    \/ ApiCompleteSession
    \/ ApiGetSession
    \/ ApiGetRoundResults
    \/ ApiListSessions

Spec == Init /\ [][Next]_vars

(***************************************************************************)
(* Properties                                                              *)
(***************************************************************************)
\* The RoundResult rows of session sid, in creation order
RowsOf(sid) == SelectSeq(round_results, LAMBDA row : row.session_id = sid)

\* Request r is a run of evaluate_candidate that has created its session
IsRun(r) == entry[r] = "evaluate_candidate" /\ session_id[r] # 0

\* The run of request r has returned its result
Returned(r) == IsRun(r) /\ pc[r] = "done"

\* The number of stage scorers the run of request r has invoked
Evaluated(r) ==
    (IF l1[r] # NULL THEN 1 ELSE 0) + (IF l2[r] # NULL THEN 1 ELSE 0)
        + (IF l3[r] # NULL THEN 1 ELSE 0)

\* The pass threshold of each stage, in hundredths of a point
StageThreshold == <<6000, 5000, 7500>>

\* C1: once Level 1 has failed in a run of evaluate_candidate, the session of
\* the run never holds a RoundResult row of round 2 or 3, the Level 2 and
\* Level 3 scorers are never invoked, and the returned result has a level1
\* entry but no level2 and no level3 entry.
C1_Level1ShortCircuit ==
    \A r \in Requests :
        (IsRun(r) /\ l1[r] # NULL /\ ~l1[r].pass) =>
            /\ \A i \in 1..Len(round_results) :
                   round_results[i].session_id = session_id[r] =>
                       round_results[i].round_no \notin {2, 3}
            /\ l2[r] = NULL /\ l3[r] = NULL
            /\ pc[r] = "done" =>
                   /\ "level1" \in DOMAIN result[r]
                   /\ "level2" \notin DOMAIN result[r]
                   /\ "level3" \notin DOMAIN result[r]

\* A run that failed Level 1 has returned while another run got to Level 2
C1_Witness ==
    \E r, q \in Requests :
        /\ Returned(r) /\ ~l1[r].pass
        /\ IsRun(q) /\ l2[q] # NULL

\* C3: the rows of a run's session are rounds 1, 2, ... in order, one per
\* stage evaluated, each with the stage's threshold (60, 50, 75); the row of
\* stage k is committed before the scorer of stage k+1 is invoked, and all of
\* them before the session is completed.
C3_OneRowPerStage ==
    \A r \in Requests :
        IsRun(r) =>
            LET rows == RowsOf(session_id[r])
                k == Len(rows)
            IN  /\ \A i \in 1..k :
                       /\ rows[i].round_no = i
                       /\ rows[i].threshold = StageThreshold[i]
                /\ pc[r] # "error" => k = Evaluated(r)
                /\ pc[r] = "error" => k \in {Evaluated(r) - 1, Evaluated(r)}
                /\ l2[r] # NULL => k >= 1
                /\ l3[r] # NULL => k >= 2
                /\ sessions[session_id[r]].status = "COMPLETED" =>
                       k = Evaluated(r) /\ k >= 1

\* A session completed after three stages, and a run stopped by a storage
\* failure between two stages
C3_Witness ==
    \E r, q \in Requests :
        /\ IsRun(r) /\ sessions[session_id[r]].status = "COMPLETED"
        /\ Len(RowsOf(session_id[r])) = 3
        /\ IsRun(q) /\ pc[q] = "error" /\ Len(RowsOf(session_id[q])) = 1
        /\ l2[q] # NULL

\* C4: a run whose first failing stage is k, k = 1 or 2, leaves its session
\* COMPLETED with final_decision REJECT and final_score the score of stage k
\* (the Level 1 score, or the Level 2 prob_pass as a percentage), and returns
\* final_pass false, failed_at "level<k>" and no decision entry.
C4_RejectAtFirstFailure ==
    \A r \in Requests :
        Returned(r) =>
            LET s == sessions[session_id[r]]
            IN  /\ ~l1[r].pass =>
                    /\ s.status = "COMPLETED"
                    /\ s.final_decision = Some("REJECT")
                    /\ s.final_score = Some(l1[r].score)
                    /\ result[r].final_pass = FALSE
                    /\ result[r].failed_at = "level1"
                    /\ "decision" \notin DOMAIN result[r]
                /\ (l1[r].pass /\ ~l2[r].pass) =>
                    /\ s.status = "COMPLETED"
                    /\ s.final_decision = Some("REJECT")
                    /\ s.final_score = Some(l2[r].prob_pass * 10)
                    /\ result[r].final_pass = FALSE
                    /\ result[r].failed_at = "level2"
                    /\ "decision" \notin DOMAIN result[r]

\* One run rejected at Level 1 and one rejected at Level 2 with a score above 0
C4_Witness ==
    \E r, q \in Requests :
        /\ Returned(r) /\ ~l1[r].pass
        /\ Returned(q) /\ l1[q].pass /\ ~l2[q].pass /\ l2[q].prob_pass > 0

\* C5: a run in which Level 1 and Level 2 pass does not return before Level 3
\* is evaluated; it completes its session with HIRE when Level 3 passes and
\* HOLD when it fails, final_score is the Level 3 score either way, and the
\* result holds level1, level2 and level3.
C5_Level3Decides ==
    \A r \in Requests :
        (IsRun(r) /\ l2[r] # NULL /\ l1[r].pass /\ l2[r].pass) =>
            /\ pc[r] \in {"level3", "final", "done", "error"}
            /\ pc[r] \in {"final", "done"} => l3[r] # NULL
            /\ pc[r] = "done" =>
                LET s == sessions[session_id[r]]
                IN  /\ s.status = "COMPLETED"
                    /\ s.final_decision =
                           Some(IF l3[r].pass THEN "HIRE" ELSE "HOLD")
                    /\ s.final_score = Some(l3[r].score)
                    /\ result[r].decision = IF l3[r].pass THEN "HIRE" ELSE "HOLD"
                    /\ {"level1", "level2", "level3"} \subseteq DOMAIN result[r]
                    /\ result[r].level3 = l3[r]

\* One run that ended in HIRE and one that ended in HOLD
C5_Witness ==
    \E r, q \in Requests :
        /\ Returned(r) /\ l3[r] # NULL /\ l3[r].pass
        /\ Returned(q) /\ l3[q] # NULL /\ ~l3[q].pass

\* The positions in which a request is about to call complete_session
Completing == {"reject1", "reject2", "final", "s_complete"}

\* C2 as stated: once a session is COMPLETED it is not completed again, so
\* its record never changes.
C2_CompletedOnce ==
    [][\A s \in DOMAIN sessions :
          sessions[s].status = "COMPLETED" => sessions'[s] = sessions[s]]_vars

\* C2: sessions are created IN_PROGRESS and never removed, no step moves a
\* COMPLETED session back to IN_PROGRESS, and a request calls complete_session
\* at most once, on its own session: a step of a request that changes an
\* existing session is the request's last step.  complete_session itself
\* accepts a COMPLETED session and overwrites it.
C2_StatusMonotone ==
    [][/\ \A s \in DOMAIN sessions :
            /\ s \in DOMAIN sessions'
            /\ sessions[s].status = "COMPLETED" =>
                   sessions'[s].status = "COMPLETED"
            /\ (sessions'[s] # sessions[s] /\ api_calls' = api_calls) =>
                   \E p \in Requests :
                       /\ session_id[p] = s
                       /\ pc[p] \in Completing
                       /\ pc'[p] = "done"
       /\ \A s \in DOMAIN sessions' \ DOMAIN sessions :
            sessions'[s].status = "IN_PROGRESS"
       /\ \A p \in Requests : pc[p] = "done" => pc'[p] = "done"]_vars

\* A session that a direct call completed first and its own run completed
\* again
C2_Witness ==
    \E p \in Requests :
        /\ pc[p] = "done" /\ api_calls = 1
        /\ sessions[session_id[p]].status = "COMPLETED"
        /\ Len(RowsOf(session_id[p])) >= 1

\* The moves of one run between its positions
StageMoves ==
    { <<"idle", "create_session">>, <<"create_session", "level1">>,
      <<"level1", "level2">>, <<"level1", "reject1">>,
      <<"level2", "level3">>, <<"level2", "reject2">>,
      <<"level3", "final">>,
      <<"reject1", "done">>, <<"reject2", "done">>, <<"final", "done">> }
        \cup { <<q, "error">> : q \in {"idle", "create_session", "level1",
                                       "reject1", "level2", "reject2",
                                       "level3", "final"} }

\* C6: a run moves only forward through Level 1, Level 2, Level 3 and the end,
\* or from a failed Level 1 or Level 2 to the end; a scorer's result, once
\* set, is never computed again; the Level k+1 scorer is invoked only when
\* Level k was invoked and passed; and every started run ends, with its
\* result or with a storage failure.
C6_StageMachine ==
    /\ [][\A r \in Requests :
            /\ pc'[r] # pc[r] => <<pc[r], pc'[r]>> \in StageMoves
            /\ l1'[r] # l1[r] => pc[r] = "level1" /\ l1[r] = NULL
            /\ l2'[r] # l2[r] => pc[r] = "level2" /\ l2[r] = NULL /\ l1[r].pass
            /\ l3'[r] # l3[r] => pc[r] = "level3" /\ l3[r] = NULL /\ l2[r].pass
            /\ (pc[r] = "level1" /\ pc'[r] = "level2") => l1'[r].pass
            /\ (pc[r] = "level1" /\ pc'[r] = "reject1") => ~l1'[r].pass
            /\ (pc[r] = "level2" /\ pc'[r] = "level3") => l2'[r].pass
            /\ (pc[r] = "level2" /\ pc'[r] = "reject2") => ~l2'[r].pass]_vars
    /\ \A r \in Requests : (pc[r] # "idle") ~> (pc[r] \in {"done", "error"})

\* One run ended after Level 3 and one ended after a failed Level 2
C6_Witness ==
    \E r, q \in Requests :
        /\ pc[r] = "done" /\ l3[r] # NULL
        /\ pc[q] = "done" /\ l2[q] # NULL /\ l3[q] = NULL

\* C7: the final_decision of every session is null or one of HIRE, HOLD,
\* REJECT.
C7_DecisionDomain ==
    \A s \in DOMAIN sessions :
        sessions[s].final_decision \in
            {NULL, Some("HIRE"), Some("HOLD"), Some("REJECT")}

\* C8: an IN_PROGRESS session has final_score, final_decision and
\* completed_at null, and a COMPLETED session has all three set.
C8_CompletionFields ==
    \A s \in DOMAIN sessions :
        /\ sessions[s].status \in {"IN_PROGRESS", "COMPLETED"}
        /\ sessions[s].status = "IN_PROGRESS" =>
            /\ sessions[s].final_score = NULL
            /\ sessions[s].final_decision = NULL
            /\ sessions[s].completed_at = NULL
        /\ sessions[s].status = "COMPLETED" =>
            /\ sessions[s].final_score # NULL
            /\ sessions[s].final_decision # NULL
            /\ sessions[s].completed_at # NULL

\* A COMPLETED session next to one that is still IN_PROGRESS
C8_Witness ==
    \E s, u \in DOMAIN sessions :
        /\ sessions[s].status = "COMPLETED"
        /\ sessions[u].status = "IN_PROGRESS"
        /\ RowsOf(u) # <<>>

\* seq is in non-decreasing order
NonDecreasing(seq) ==
    \A i, j \in 1..Len(seq) : i < j => seq[i] <= seq[j]

\* The round_no of each row of rows
RoundNos(rows) == [i \in 1..Len(rows) |-> rows[i].round_no]

\* The owner labels under which evaluate_candidate saves its rows
PipelineOwners == {"Interviewer L1", "Interviewer L2", "Interviewer L3"}

\* C9 as stated: the round_no values of every session's rows are
\* non-decreasing in creation order.
C9_NonDecreasing ==
    \A s \in DOMAIN sessions : NonDecreasing(RoundNos(RowsOf(s)))

\* C9: the round_no values of the rows that evaluate_candidate saved in a
\* session are non-decreasing in creation order, whatever rows other callers
\* of save_round_result added to the session in between.
C9_PipelineRowsOrdered ==
    \A s \in DOMAIN sessions :
        NonDecreasing(RoundNos(SelectSeq(RowsOf(s),
                                         LAMBDA row : row.owner \in PipelineOwners)))

\* A session with the rows of rounds 1 and 2 of its run and then a row of
\* round 1 from a direct call
C9_Witness ==
    \E s \in DOMAIN sessions :
        LET rows == RowsOf(s)
        IN  /\ Len(rows) >= 3
            /\ rows[2].owner = "Interviewer L2"
            /\ rows[3].owner = "Reviewer" /\ rows[3].round_no = 1

\* C10: every step keeps each persisted RoundResult row as it is and in its
\* place; a step that changes round_results adds exactly one row at the end
\* and leaves candidates and sessions unchanged.
C10_RowsImmutable ==
    [][/\ Len(round_results') >= Len(round_results)
       /\ \A i \in 1..Len(round_results) : round_results'[i] = round_results[i]
       /\ round_results' # round_results =>
            /\ Len(round_results') = Len(round_results) + 1
            /\ candidates' = candidates
            /\ sessions' = sessions]_vars

\* A direct call saved a second row for round 1 of a session that was then
\* completed
C10_Witness ==
    \E s \in DOMAIN sessions :
        LET rows == RowsOf(s)
        IN  /\ Len(rows) >= 2
            /\ rows[1].round_no = 1 /\ rows[2].round_no = 1
            /\ sessions[s].status = "COMPLETED"

\* C11: the storage call of a run that fails leaves the store exactly as it
\* was before the call and the run without a result; after it the run takes
\* no further step: no scorer is invoked, and the rows and the record of its
\* session stay as the earlier calls committed them.
C11_FailedCallRollsBack ==
    [][\A r \in Requests :
          /\ (pc[r] # "error" /\ pc'[r] = "error") =>
                /\ candidates' = candidates
                /\ sessions' = sessions
                /\ round_results' = round_results
                /\ result'[r] = NULL
          /\ pc[r] = "error" =>
                /\ pc'[r] = "error" /\ result'[r] = NULL
                /\ l1'[r] = l1[r] /\ l2'[r] = l2[r] /\ l3'[r] = l3[r]
                /\ RowsOf(session_id[r])' = RowsOf(session_id[r])
                /\ session_id[r] # 0 =>
                       sessions'[session_id[r]] = sessions[session_id[r]]]_vars

\* A run whose save of round 3 failed: rounds 1 and 2 are committed, the
\* session is still IN_PROGRESS, and the other run has finished since
C11_Witness ==
    \E r, q \in Requests :
        /\ IsRun(r) /\ pc[r] = "error" /\ l3[r] # NULL
        /\ Len(RowsOf(session_id[r])) = 2
        /\ sessions[session_id[r]].status = "IN_PROGRESS"
        /\ Returned(q)

\* The resume of payload p is missing, not a string or shorter than 30 words
InvalidResume(p) ==
    \/ "resume_text" \notin DOMAIN p
    \/ ~p.resume_text.str
    \/ p.resume_text.distinct * p.resume_text.reps < 30

\* The answers of payload p are missing, not a dict, empty, or without any
\* entry that is a dict with a "correct" key
InvalidAnswers(p) ==
    \/ "technical_answers" \notin DOMAIN p
    \/ ~p.technical_answers.isdict
    \/ \A i \in 1..Len(p.technical_answers.values) :
          ~(p.technical_answers.values[i].isdict
              /\ p.technical_answers.values[i].hascorrect)

\* The scenario of payload p is missing, not a string or has fewer than two
\* segments
InvalidScenario(p) ==
    \/ "scenario_answer" \notin DOMAIN p
    \/ ~p.scenario_answer.str
    \/ Len(p.scenario_answer.steps) < 2

\* C12: a scorer given an invalid input returns pass false, score 0 and a
\* reason; from each scorer the run can go on with the round saved, nothing
\* raised to the caller; and a run on a payload with an invalid input that
\* returns has saved one row per stage evaluated, the last one not passed,
\* has completed its session and returns final_pass false.
C12_InvalidInputRecovered ==
    \A r \in Requests :
        IsRun(r) =>
            /\ (l1[r] # NULL /\ InvalidResume(payload[r])) =>
                   /\ ~l1[r].pass /\ l1[r].score = 0
                   /\ l1[r].reason \in {"Invalid input", "Too short"}
            /\ (l2[r] # NULL /\ InvalidAnswers(payload[r])) =>
                   /\ ~l2[r].pass /\ l2[r].prob_pass = 0
                   /\ l2[r].reason \in {"No answers", "Malformed input"}
            /\ (l3[r] # NULL /\ InvalidScenario(payload[r])) =>
                   /\ ~l3[r].pass /\ l3[r].score = 0
                   /\ l3[r].reason \in {"Invalid input", "Too shallow"}
            /\ pc[r] \in {"level1", "level2", "level3"} =>
                   ENABLED (evaluate_candidate(r) /\ pc'[r] # "error")
            /\ (/\ pc[r] = "done"
                /\ \/ InvalidResume(payload[r])
                   \/ InvalidAnswers(payload[r])
                   \/ InvalidScenario(payload[r])) =>
                   LET rows == RowsOf(session_id[r])
                   IN  /\ result[r].final_pass = FALSE
                       /\ sessions[session_id[r]].status = "COMPLETED"
                       /\ sessions[session_id[r]].final_decision
                              \in {Some("REJECT"), Some("HOLD")}
                       /\ Len(rows) = Evaluated(r)
                       /\ rows[Len(rows)].passed = 0
                       /\ rows[Len(rows)].score = 0

\* C13: the create_session step of a run adds exactly one session, under an
\* id no session had, IN_PROGRESS and owned by the run's candidate; no other
\* step of the run adds a session or changes which session the run works on;
\* and every step of the run leaves all other sessions as they are and adds
\* rows to its own session only.
C13_FreshSession ==
    [][\A r \in Requests :
          (pc'[r] # pc[r] /\ entry'[r] = "evaluate_candidate") =>
              LET sid == session_id'[r]
                  opens == pc[r] = "create_session" /\ pc'[r] = "level1"
              IN  /\ opens =>
                        /\ sid \notin DOMAIN sessions
                        /\ DOMAIN sessions' = DOMAIN sessions \cup {sid}
                        /\ sessions'[sid].status = "IN_PROGRESS"
                        /\ sessions'[sid].candidate_id = candidate_id[r]
                  /\ ~opens =>
                        /\ DOMAIN sessions' = DOMAIN sessions
                        /\ session_id'[r] = session_id[r]
                  /\ \A s \in DOMAIN sessions :
                        s # sid => sessions'[s] = sessions[s]
                  /\ \A i \in (Len(round_results) + 1)..Len(round_results') :
                        round_results'[i].session_id = sid]_vars

\* A run has returned whose candidate had another session, still
\* IN_PROGRESS, before the run opened its own
C13_Witness ==
    \E r \in Requests, s \in DOMAIN sessions :
        /\ Returned(r)
        /\ s < session_id[r]
        /\ sessions[s].candidate_id = candidate_id[r]
        /\ sessions[s].status = "IN_PROGRESS"
        /\ RowsOf(s) = <<>>

\* C14: in every state of the store, upsert_candidate with an id returns the
\* id and leaves sessions and round results alone; for an id no candidate has
\* it adds one candidate with the given fields, created now; for an id a
\* candidate has it keeps the set of candidates, the candidate's id and
\* created_at and every other candidate, and sets full_name, email, phone and
\* role; and the same call made again, at any later time, changes nothing.
C14_UpsertById ==
    \A cid \in DOMAIN candidates \cup {OwnCandidateId}, t, u \in 0..MaxTime :
        LET once == upsert_candidate(DB, "Eve", "eve@x.org", "", "QA", cid, t, FALSE)
            again == upsert_candidate(once.db, "Eve", "eve@x.org", "", "QA", cid,
                                      u, FALSE)
            after == once.db.candidates
        IN  /\ ~once.raised /\ once.ret = cid
            /\ once.db.sessions = sessions
            /\ once.db.round_results = round_results
            /\ \A c \in DOMAIN candidates \ {cid} :
                   c \in DOMAIN after /\ after[c] = candidates[c]
            /\ DOMAIN after = DOMAIN candidates \cup {cid}
            /\ after[cid].candidate_id = cid
            /\ after[cid].full_name = "Eve" /\ after[cid].email = "eve@x.org"
            /\ after[cid].phone = "" /\ after[cid].role = "QA"
            /\ after[cid].created_at =
                   IF cid \in DOMAIN candidates THEN candidates[cid].created_at
                   ELSE t
            /\ DOMAIN after[cid] = {"candidate_id", "full_name", "email", "phone",
                                    "role", "created_at"}
            /\ ~again.raised /\ again.ret = cid /\ again.db = once.db

\* A direct upsert_candidate has overwritten the candidate of a run that has
\* a session with a row, and the run went on
C14_Witness ==
    \E r \in Requests :
        /\ IsRun(r) /\ l1[r] # NULL /\ RowsOf(session_id[r]) # <<>>
        /\ candidates[candidate_id[r]].full_name = "Eve"
        /\ candidates[candidate_id[r]].role = "QA"
        /\ Get(payload[r], "role", "Backend Engineer") # "QA"

(***************************************************************************)
(* Level 2 scorer claims (SpecLevel2)                                      *)
(***************************************************************************)
\* The gradable entries of a map and their counts, counted from the map
GradableOf(a) == SelectSeq(a.values, LAMBDA v : v.isdict /\ v.hascorrect)
TotalOf(a) == Len(GradableOf(a))
CorrectOf(a) == Len(SelectSeq(GradableOf(a), LAMBDA v : v.correct))
Scored(p) == p \in {1, 2} /\ pc[p] = "return" /\ entry[p] = "level2_technical"

\* C15: for every answer map with at least one gradable entry, the returned
\* pass is true exactly when the returned prob_pass (rounded to 3 decimals,
\* here in thousandths) is at least 0.5.
C15_PassIffProbPass ==
    \A p \in {1, 2} :
        (Scored(p) /\ TotalOf(payload[p].technical_answers) >= 1)
            => (l2[p].pass <=> l2[p].prob_pass >= 500)

\* C16: only mappings holding "correct" are graded: the result for a map is
\* the result for its gradable entries alone, and stays the same when
\* ungradable entries are added; a map with no gradable entry (the empty map
\* and a value that is no mapping included) gives pass false and prob_pass 0.
C16_UngradableIgnored ==
    \A p \in {1, 2} :
        Scored(p) =>
            LET a == payload[p].technical_answers
                g == GradableOf(a)
                alone == level2_technical(Answers(g))
                more == level2_technical(
                            Answers(<<NoCorrectEntry>> \o a.values \o <<NonDictEntry>>))
            IN  IF a.isdict /\ g # <<>>
                THEN /\ l2[p].pass = alone.pass /\ l2[p].prob_pass = alone.prob_pass
                     /\ l2[p].pass = more.pass /\ l2[p].prob_pass = more.prob_pass
                ELSE ~l2[p].pass /\ l2[p].prob_pass = 0

C16_Witness ==
    /\ Scored(1) /\ Scored(2)
    /\ LET a == payload[1].technical_answers
           b == payload[2].technical_answers
       IN  /\ TotalOf(a) = 3 /\ CorrectOf(a) = 2 /\ Len(a.values) = 5
           /\ l2[1].pass /\ l2[1].prob_pass = 667
           /\ TotalOf(b) = 0 /\ Len(b.values) = 2 /\ ~l2[2].pass

PhasesHit(st) == {ph \in PHASES : \E i \in 1..Len(st) : ph \in st[i].phases}
SegmentsWithDim(st) == {i \in 1..Len(st) : st[i].dims # {}}
DimensionHits(st) ==
    {h \in (1..Len(st)) \X DIMENSIONS : h[2] \in st[h[1]].dims}
HitsOf(st, d) == Cardinality({h \in DimensionHits(st) : h[2] = d})

\* 100 * (0.45 * flow + 0.35 * tradeoff + 0.20 * stability) in hundredths, as
\* <<numerator, denominator>>
StatedScore(st) ==
    LET P == Cardinality(PhasesHit(st))
        n == Cardinality(SegmentsWithDim(st))
        S == Cardinality(DimensionHits(st))
        M == CHOOSE m \in {HitsOf(st, d) : d \in DIMENSIONS} :
                 \A d \in DIMENSIONS : HitsOf(st, d) <= m
    IN  IF n = 0 THEN <<100 * 45 * P, 4>>
        ELSE <<100 * (45 * P * n * S + 35 * S * S + 80 * n * (S - M)),
               4 * n * S>>

\* v is num/den rounded to the nearest integer
Nearest(v, num, den) ==
    /\ 2 * (v * den - num) <= den
    /\ 2 * (num - v * den) <= den

\* C18: for every scenario answer of at least 2 segments the returned score
\* is 100 x (0.45 x flow + 0.35 x tradeoff + 0.20 x stability) rounded to 2
\* decimals, and pass holds exactly when that score is at least 75; three
\* segments hitting diagnose, contain and prevent with no dimension give
\* 33.75 and pass false.
C18_ScoreAndPass ==
    \A p \in Requests :
        LET a == payload[p].scenario_answer
        IN  (/\ pc[p] = "return" /\ entry[p] = "level3_scenario"
             /\ a.str /\ Len(a.steps) >= 2)
                => /\ Nearest(l3[p].score, StatedScore(a.steps)[1],
                              StatedScore(a.steps)[2])
                   /\ l3[p].pass <=> l3[p].score >= 7500
                   /\ a = WeakScenario => l3[p].score = 3375 /\ ~l3[p].pass

\* The part of C18 about the value of the score alone
C18_ScoreValue ==
    \A p \in Requests :
        LET a == payload[p].scenario_answer
        IN  (/\ pc[p] = "return" /\ entry[p] = "level3_scenario"
             /\ a.str /\ Len(a.steps) >= 2)
                => /\ Nearest(l3[p].score, StatedScore(a.steps)[1],
                              StatedScore(a.steps)[2])
                   /\ a = WeakScenario => l3[p].score = 3375 /\ ~l3[p].pass

(***************************************************************************)
(* The full pipeline on a strong payload (SpecInputs)                      *)
(***************************************************************************)
\* Every entry of the answers of payload p is gradable and correct
AllTrueAnswers(p) ==
    /\ "technical_answers" \in DOMAIN p
    /\ p.technical_answers.isdict
    /\ p.technical_answers.values # <<>>
    /\ \A i \in 1..Len(p.technical_answers.values) :
          LET v == p.technical_answers.values[i]
          IN  v.isdict /\ v.hascorrect /\ v.correct

\* The scenario of payload p names all four phases and every dimension c
\* times
BalancedScenario(p, c) ==
    /\ "scenario_answer" \in DOMAIN p
    /\ p.scenario_answer.str
    /\ PhasesHit(p.scenario_answer.steps) = PHASES
    /\ \A d \in DIMENSIONS : HitsOf(p.scenario_answer.steps, d) = c

\* The run of request r got a passing resume, all-true answers and a
\* balanced scenario with c hits of every dimension, and has returned
StrongRun(r, c) ==
    /\ Returned(r)
    /\ l1[r] # NULL /\ l1[r].pass
    /\ AllTrueAnswers(payload[r])
    /\ BalancedScenario(payload[r], c)

\* C19 as stated: a passing resume, all-true technical_answers and a
\* scenario hitting all 4 phases with every dimension hit equally often end
\* in decision HIRE and session status COMPLETED.
C19_BalancedHire ==
    \A r \in Requests : \A c \in 0..7 :
        StrongRun(r, c) =>
            /\ result[r].decision = "HIRE"
            /\ sessions[session_id[r]].status = "COMPLETED"
            /\ sessions[session_id[r]].final_decision = Some("HIRE")

\* C19 amended: such a run always ends with the session COMPLETED; the
\* decision is HIRE when the scenario has at least two segments and every
\* dimension is hit c >= 1 times over n segments naming a dimension with
\* 7c >= 3n (score 60 + 35c/n >= 75), and HOLD otherwise.
C19_BalancedOutcome ==
    \A r \in Requests : \A c \in 0..7 :
        StrongRun(r, c) =>
            LET st == payload[r].scenario_answer.steps
                n == Cardinality(SegmentsWithDim(st))
                d == IF Len(st) >= 2 /\ c >= 1 /\ 7 * c >= 3 * n
                     THEN "HIRE" ELSE "HOLD"
            IN  /\ result[r].decision = d
                /\ result[r].final_pass = (d = "HIRE")
                /\ sessions[session_id[r]].status = "COMPLETED"
                /\ sessions[session_id[r]].final_decision = Some(d)

C19_Witness ==
    \E r \in Requests :
        /\ StrongRun(r, 3)
        /\ Cardinality(SegmentsWithDim(payload[r].scenario_answer.steps)) = 7
        /\ result[r].decision = "HIRE"
        /\ sessions[session_id[r]].status = "COMPLETED"
        /\ sessions[session_id[r]].final_score = Some(7500)

(***************************************************************************)
(* Concurrent runs (SpecPipeline)                                          *)
(***************************************************************************)
\* evaluate_candidate(p) run alone on an empty store, without a storage
\* failure: the rows of its session, the session and the returned result
RunAlone ==
    [p \in Payloads |->
        LET empty == [candidates |-> <<>>, sessions |-> <<>>, round_results |-> <<>>]
            cand == UpsertPayloadCandidate(empty, p, 0, FALSE)
            sess == create_session(cand.db, cand.ret, 0, FALSE)
            sid == sess.ret
            resume_text == Get(p, "resume_text", EmptyText)
            l1v == level1_screen(resume_text)
            r1 == SaveRound1(sess.db, sid, resume_text, l1v, 0, FALSE)
            technical_answers == Get(p, "technical_answers", Answers(<<>>))
            l2v == level2_technical(technical_answers)
            r2 == SaveRound2(r1.db, sid, technical_answers, l2v, 0, FALSE)
            scenario_answer == Get(p, "scenario_answer", Scenario(<<>>))
            l3v == level3_scenario(scenario_answer)
            r3 == SaveRound3(r2.db, sid, scenario_answer, l3v, 0, FALSE)
            end == IF Branch1(l1v) = "reject1"
                   THEN [db |-> CompleteReject1(r1.db, sid, l1v, 0, FALSE).db,
                         result |-> Level1Failure(sid, l1v)]
                   ELSE IF Branch2(l2v) = "reject2"
                   THEN [db |-> CompleteReject2(r2.db, sid, l2v, 0, FALSE).db,
                         result |-> Level2Failure(sid, l1v, l2v)]
                   ELSE [db |-> CompleteFinal(r3.db, sid, l3v, 0, FALSE).db,
                         result |-> FinalBundle(sid, l1v, l2v, l3v)]
        IN  [rows |-> end.db.round_results,
             session |-> end.db.sessions[sid],
             result |-> end.result]]

\* A row, a session or a result without its ids and timestamps
Content(rec) ==
    [k \in DOMAIN rec \ {"result_id", "session_id", "candidate_id", "created_at",
                          "completed_at"} |-> rec[k]]
Contents(rows) == [i \in 1..Len(rows) |-> Content(rows[i])]

\* The run of request r is between two of its storage calls
Running(r) ==
    entry[r] = "evaluate_candidate" /\ pc[r] \notin {"idle", "done", "error"}

\* C20: under any interleaving of the storage calls of concurrent runs of
\* evaluate_candidate (each for a candidate of its own), the rows of a run's
\* session are at every moment the first rows the run writes when alone; when
\* it has returned, its rows, its session's status, final_score and
\* final_decision and its result are those of the run alone; and a run that
\* has started can always take its next step, wherever the other run is.
C20_RunsIndependent ==
    \A r \in Requests :
        /\ IsRun(r) =>
              LET alone == RunAlone[payload[r]]
                  mine == Contents(RowsOf(session_id[r]))
              IN  /\ Len(mine) <= Len(alone.rows)
                  /\ mine = SubSeq(Contents(alone.rows), 1, Len(mine))
                  /\ sessions[session_id[r]].candidate_id = candidate_id[r]
                  /\ \A q \in Requests \ {r} :
                        candidate_id[q] # candidate_id[r]
                  /\ Returned(r) =>
                        /\ mine = Contents(alone.rows)
                        /\ Content(sessions[session_id[r]]) = Content(alone.session)
                        /\ Content(result[r]) = Content(alone.result)
                        /\ result[r].session_id = session_id[r]
        /\ Running(r) => ENABLED (evaluate_candidate(r) /\ pc'[r] # "error")

\* Two runs have interleaved their storage calls and both have returned, one
\* hired and one rejected at Level 2
C20_Witness ==
    /\ Returned(1) /\ Returned(2)
    /\ result[1].final_pass /\ ~result[2].final_pass
    /\ Len(round_results) = 5
    /\ round_results[1].session_id # round_results[2].session_id
    /\ round_results[2].session_id # round_results[3].session_id
    /\ round_results[3].session_id # round_results[4].session_id

(***************************************************************************)
(* Decisions against the persisted rounds (SpecPipeline)                   *)
(***************************************************************************)
\* The rows have exactly the rounds 1..n, in that order
RoundsUpTo(rows, n) == RoundNos(rows) = [i \in 1..n |-> i]

\* Every row before the last passed
EarlierPassed(rows) == \A i \in 1..(Len(rows) - 1) : rows[i].passed = 1

\* C21: for every session that evaluate_candidate completed, the decision is
\* HIRE iff the session has rounds 1, 2, 3 all passed; HOLD iff it has rounds
\* 1, 2, 3 with rounds 1 and 2 passed and round 3 not; REJECT iff its highest
\* round is 1 or 2 and that row has not passed while every earlier row has;
\* and final_score is the score of the session's last row.
C21_DecisionMatchesRounds ==
    \A s \in DOMAIN sessions :
        sessions[s].status = "COMPLETED" =>
            LET rows == RowsOf(s)
                n == Len(rows)
                d == sessions[s].final_decision
            IN  /\ n >= 1
                /\ d \in {Some("HIRE"), Some("HOLD"), Some("REJECT")}
                /\ d = Some("HIRE") <=>
                      /\ RoundsUpTo(rows, 3)
                      /\ \A i \in 1..n : rows[i].passed = 1
                /\ d = Some("HOLD") <=>
                      /\ RoundsUpTo(rows, 3)
                      /\ EarlierPassed(rows) /\ rows[n].passed = 0
                /\ d = Some("REJECT") <=>
                      /\ RoundsUpTo(rows, 1) \/ RoundsUpTo(rows, 2)
                      /\ EarlierPassed(rows) /\ rows[n].passed = 0
                /\ sessions[s].final_score = Some(rows[n].score)

\* Two runs have returned, one rejected at Level 2 and one held at Level 3
C21_Witness ==
    \E r, q \in Requests :
        /\ Returned(r) /\ Returned(q)
        /\ sessions[session_id[r]].final_decision = Some("REJECT")
        /\ Len(RowsOf(session_id[r])) = 2
        /\ sessions[session_id[q]].final_decision = Some("HOLD")
        /\ Len(RowsOf(session_id[q])) = 3

(***************************************************************************)
(* The stored rows of a run (SpecInputs)                                   *)
(***************************************************************************)
\* C22: every RoundResult row that evaluate_candidate persisted has
\* passed = true exactly when its stored score is at least its stored
\* threshold (60.0, 50.0 and 75.0 for rounds 1, 2 and 3).
C22_PassedIffScoreAtThreshold ==
    \A i \in 1..Len(round_results) :
        LET row == round_results[i]
        IN  row.owner \in PipelineOwners =>
                /\ row.threshold = StageThreshold[row.round_no]
                /\ row.passed = 1 <=> row.score >= row.threshold

(***************************************************************************)
(* Runs that fail after their session exists (SpecPipeline)                *)
(***************************************************************************)
\* A storage call of the run of request r failed after create_session had
\* committed: in save_round_result or in complete_session
FailedAfterSession(r) ==
    entry[r] = "evaluate_candidate" /\ pc[r] = "error" /\ session_id[r] # 0

\* C23: when a storage call of evaluate_candidate fails after create_session
\* has committed, the session of that run is IN_PROGRESS with null
\* final_score and final_decision in every later state, whatever the other
\* runs of evaluate_candidate do afterwards.
C23_FailedSessionStaysOpen ==
    \A r \in Requests :
        FailedAfterSession(r) =>
            /\ session_id[r] \in DOMAIN sessions
            /\ sessions[session_id[r]].status = "IN_PROGRESS"
            /\ sessions[session_id[r]].final_score = NULL
            /\ sessions[session_id[r]].final_decision = NULL
            /\ sessions[session_id[r]].completed_at = NULL

\* A run failed in complete_session with its three rounds saved, and a run
\* that started later has completed its own session
C23_Witness ==
    \E r, q \in Requests :
        /\ FailedAfterSession(r)
        /\ Len(RowsOf(session_id[r])) = 3
        /\ Returned(q) /\ session_id[q] > session_id[r]
        /\ sessions[session_id[q]].status = "COMPLETED"

(***************************************************************************)
(* Candidates of the runs (SpecPipeline)                                   *)
(***************************************************************************)
\* The runs whose upsert_candidate, and whose create_session, has committed
WithCandidate == {r \in Requests : candidate_id[r] # 0}
WithSession == {r \in Requests : session_id[r] # 0}

\* C24: every invocation of evaluate_candidate inserts a candidate row of its
\* own and never updates an existing one: there are as many candidates as
\* invocations past upsert_candidate and as many sessions as invocations
\* past create_session, each row holds what its own invocation inserted, and
\* the sessions belong to pairwise different candidates, also when the
\* payloads are identical.
C24_NewCandidatePerRun ==
    /\ Cardinality(DOMAIN candidates) = Cardinality(WithCandidate)
    /\ Cardinality(DOMAIN sessions) = Cardinality(WithSession)
    /\ \A r \in WithCandidate :
          /\ candidate_id[r] \in DOMAIN candidates
          /\ candidates[candidate_id[r]].full_name
                = Get(payload[r], "full_name", "Unknown")
          /\ candidates[candidate_id[r]].email = Get(payload[r], "email", "")
          /\ candidates[candidate_id[r]].phone = Get(payload[r], "phone", "")
          /\ candidates[candidate_id[r]].role
                = Get(payload[r], "role", "Backend Engineer")
          /\ \A q \in WithCandidate \ {r} : candidate_id[q] # candidate_id[r]
    /\ \A r \in WithSession :
          /\ session_id[r] \in DOMAIN sessions
          /\ sessions[session_id[r]].candidate_id = candidate_id[r]
          /\ \A q \in WithSession \ {r} :
                /\ session_id[q] # session_id[r]
                /\ sessions[session_id[q]].candidate_id
                      # sessions[session_id[r]].candidate_id

\* Two invocations with the same payload have both created their session
C24_Witness ==
    \E r, q \in Requests :
        /\ r # q /\ r \in WithSession /\ q \in WithSession
        /\ payload[r] = payload[q]
        /\ Cardinality(DOMAIN candidates) >= 2
        /\ Cardinality(DOMAIN sessions) >= 2

====
